---- MODULE Spec2Model ----
(***************************************************************************)
(* Model of the minesweeper board engine (src/src/game.rs): the Game       *)
(* struct, its commands and queries, the flood reveal of uncover and the   *)
(* mine generation of reset.                                               *)
(*                                                                         *)
(* A Game value is the record                                              *)
(*   [width, height, state, field_state, total, remaining]                 *)
(* and every method of impl Game is an operator from Game values to Game   *)
(* values.  The state machine holds one Game (the variables carry the      *)
(* struct's field names), and each action applies one method to it.        *)
(***************************************************************************)
EXTENDS Integers, Sequences, FiniteSets, TLC

VARIABLES width, height, state, field_state, total, remaining,
          last, pre, lost_before, cleared, cmds, work_stack

vars == <<width, height, state, field_state, total, remaining,
          last, pre, lost_before, cleared, cmds, work_stack>>

(***************************************************************************)
(* Bounds of the model.                                                    *)
(***************************************************************************)
\* Boards of every size from 1 x 1 up to MaxWidth x MaxHeight are built.
MaxWidth == 3
MaxHeight == 3
\* Number of commands issued on one board between two generations.
MaxCmds == 3

(***************************************************************************)
(* enum GameState, enum CellState                                          *)
(***************************************************************************)
GameState == {"Initial", "Playing", "Won", "Lost"}

\* The five variants of CellState.  Every cell is a record of one shape:
\* `mined` is the payload of Unknown/Known/Flagged/Questioned and `count`
\* the payload of Counted.
Unknown(m) == [kind |-> "Unknown", mined |-> m, count |-> 0]
Known(m) == [kind |-> "Known", mined |-> m, count |-> 0]
Flagged(m) == [kind |-> "Flagged", mined |-> m, count |-> 0]
Questioned(m) == [kind |-> "Questioned", mined |-> m, count |-> 0]
Counted(n) == [kind |-> "Counted", mined |-> FALSE, count |-> n]

CellState ==
    {Unknown(m) : m \in BOOLEAN} \cup {Known(m) : m \in BOOLEAN}
    \cup {Flagged(m) : m \in BOOLEAN} \cup {Questioned(m) : m \in BOOLEAN}
    \cup {Counted(n) : n \in 0..8}

\* const DENSITY_FACTOR_A/B/C, as ten-thousandths.
DENSITY_FACTOR_A == 2
DENSITY_FACTOR_B == 938
DENSITY_FACTOR_C == 8937

(***************************************************************************)
(* Helpers over a Game value g.                                            *)
(***************************************************************************)
\* let index = (y * self.width + x) as usize
Index(g, x, y) == y * g.width + x

\* The valid indices of field_state: 0 .. width*height - 1.
Cells(g) == 0 .. (g.width * g.height - 1)

XOf(g, i) == i % g.width
YOf(g, i) == i \div g.width

\* fn cell_state(&self, x, y)
cell_state(g, x, y) == g.field_state[Index(g, x, y)]

\* fn remaining(&self)
remaining_of(g) == g.remaining

\* fn state(&self)
state_of(g) == g.state

\* is_mined reading the ground truth whatever the wrapper is.
is_mined_any_wrapper(g, x, y) ==
    g.field_state[Index(g, x, y)].mined

\* fn is_mined(&self, x, y)
is_mined(g, x, y) ==
    \/ g.field_state[Index(g, x, y)] = Unknown(TRUE)
    \/ g.field_state[Index(g, x, y)] = Known(TRUE)

(***************************************************************************)
(* fn neighbor_count(&self, x, y) -> u8                                    *)
(* The two nested loops over y-1..=y+1 and x-1..=x+1 with their three      *)
(* `continue`s; a neighbour counts when it is Unknown(true),               *)
(* Questioned(true) or Flagged(true).                                      *)
(***************************************************************************)
\* The 3x3 block without its "do not check self".
NeighborVisits_with_self(g, x, y) ==
    { p \in ((x - 1)..(x + 1)) \X ((y - 1)..(y + 1)) :
        /\ ~(p[2] < 0 \/ p[2] = g.height)
        /\ ~(p[1] < 0 \/ p[1] = g.width) }

\* The pairs <<x_idx, y_idx>> the loops reach past their three `continue`s.
NeighborVisits(g, x, y) ==
    { p \in ((x - 1)..(x + 1)) \X ((y - 1)..(y + 1)) :
        /\ ~(p[2] < 0 \/ p[2] = g.height)
        /\ ~(p[1] < 0 \/ p[1] = g.width)
        /\ (p[2] * g.width) + p[1] # Index(g, x, y) }

\* count += 1 once for every pair visited whose cell is a covered mine.
neighbor_count(g, x, y) ==
    Cardinality({ p \in NeighborVisits(g, x, y) :
                    \/ g.field_state[(p[2] * g.width) + p[1]] = Unknown(TRUE)
                    \/ g.field_state[(p[2] * g.width) + p[1]] = Questioned(TRUE)
                    \/ g.field_state[(p[2] * g.width) + p[1]] = Flagged(TRUE) })

(***************************************************************************)
(* fn clear(&mut self)                                                     *)
(***************************************************************************)
\* clear taking the mines off the counter as it takes them off the board.
clear_zeroes_remaining(g) ==
    [g EXCEPT !.field_state = [i \in Cells(g) |-> Unknown(FALSE)],
              !.remaining = 0,
              !.state = "Initial"]

clear(g) ==
    [g EXCEPT !.field_state = [i \in Cells(g) |-> Unknown(FALSE)],
              !.state = "Initial"]

(***************************************************************************)
(* fn reset(&mut self)                                                     *)
(* density is the f32 polynomial truncated by `as u16`; for the areas of   *)
(* the model the f32 value and the exact rational have the same integer    *)
(* part.  The generation loop stamps Unknown(true) on `density` distinct   *)
(* cells (a draw that hits a mined cell is redrawn), so its outcome is a   *)
(* set `mines` of that many cells, chosen by the random source.            *)
(***************************************************************************)
\* The polynomial rounded to the nearest integer where the code's `as u16`
\* drops the fraction.
density_rounded(w, h) ==
    (2 * (((w * h) * (w * h)) * DENSITY_FACTOR_A
          + (w * h) * DENSITY_FACTOR_B
          + DENSITY_FACTOR_C) + 10000) \div 20000

density(w, h) ==
    (((w * h) * (w * h)) * DENSITY_FACTOR_A
      + (w * h) * DENSITY_FACTOR_B
      + DENSITY_FACTOR_C) \div 10000

\* The sets of k cells of S.
RECURSIVE KSubsets(_, _)
KSubsets(S, k) ==
    IF k = 0 THEN {{}}
    ELSE UNION { { T \cup {c} : T \in KSubsets({d \in S : d > c}, k - 1) } : c \in S }

Placements(g) == KSubsets(Cells(g), density(g.width, g.height))

\* reset without its `self.remaining = density`.
reset_keeps_remaining(g, mines) ==
    [g EXCEPT
        !.field_state = [i \in Cells(g) |->
                            IF i \in mines THEN Unknown(TRUE) ELSE Unknown(FALSE)],
        !.total = density(g.width, g.height),
        !.state = "Initial"]

reset(g, mines) ==
    [clear(g) EXCEPT
        !.field_state = [i \in Cells(g) |->
                            IF i \in mines THEN Unknown(TRUE) ELSE Unknown(FALSE)],
        !.remaining = density(g.width, g.height),
        !.total = density(g.width, g.height),
        !.state = "Initial"]

\* fn new(width, height): the struct with an empty field, then reset().
new(w, h, mines) ==
    reset([width |-> w, height |-> h, state |-> "Initial",
           field_state |-> <<>>, total |-> 0, remaining |-> 0], mines)

(***************************************************************************)
(* fn flag, fn question, fn set_unknown, fn show_mined                     *)
(***************************************************************************)
\* flag without the `if self.remaining > 0` floor (u16 arithmetic).
flag_unfloored(g, x, y) ==
    LET index == Index(g, x, y)
        c == g.field_state[index]
    IN  IF c.kind \in {"Unknown", "Questioned"}
        THEN [g EXCEPT !.field_state[index] = Flagged(c.mined),
                       !.remaining = (g.remaining - 1) % 65536,
                       !.state = "Playing"]
        ELSE [g EXCEPT !.state = "Playing"]

flag(g, x, y) ==
    LET index == Index(g, x, y)
        c == g.field_state[index]
    IN  IF c.kind \in {"Unknown", "Questioned"}
        THEN [g EXCEPT !.field_state[index] = Flagged(c.mined),
                       !.remaining = IF g.remaining > 0
                                     THEN g.remaining - 1 ELSE g.remaining,
                       !.state = "Playing"]
        ELSE [g EXCEPT !.state = "Playing"]

\* question with its `self.remaining += 1` outside the Flagged arm: every
\* question mark adds one.
question_increments_always(g, x, y) ==
    LET index == Index(g, x, y)
        c == g.field_state[index]
    IN  IF c.kind \in {"Unknown", "Flagged"}
        THEN [g EXCEPT !.field_state[index] = Questioned(c.mined),
                       !.remaining = (g.remaining + 1) % 65536,
                       !.state = "Playing"]
        ELSE [g EXCEPT !.state = "Playing"]

\* question without the `self.remaining += 1` of its Flagged arm.
question_no_increment(g, x, y) ==
    LET index == Index(g, x, y)
        c == g.field_state[index]
    IN  IF c.kind \in {"Unknown", "Flagged"}
        THEN [g EXCEPT !.field_state[index] = Questioned(c.mined),
                       !.state = "Playing"]
        ELSE [g EXCEPT !.state = "Playing"]

question(g, x, y) ==
    LET index == Index(g, x, y)
        c == g.field_state[index]
    IN  CASE c.kind = "Unknown" ->
                [g EXCEPT !.field_state[index] = Questioned(c.mined),
                          !.state = "Playing"]
          [] c.kind = "Flagged" ->
                [g EXCEPT !.field_state[index] = Questioned(c.mined),
                          !.remaining = (g.remaining + 1) % 65536,
                          !.state = "Playing"]
          [] OTHER -> [g EXCEPT !.state = "Playing"]

\* set_unknown without the `self.remaining += 1` of its Flagged arm.
set_unknown_no_increment(g, x, y) ==
    LET index == Index(g, x, y)
        c == g.field_state[index]
    IN  CASE c.kind \in {"Flagged", "Known", "Questioned"} ->
                [g EXCEPT !.field_state[index] = Unknown(c.mined)]
          [] c.kind = "Counted" ->
                [g EXCEPT !.field_state[index] = Unknown(FALSE)]
          [] OTHER -> g

\* set_unknown ending with `self.state = GameState::Playing`, as flag and
\* question do.
set_unknown_sets_playing(g, x, y) ==
    LET index == Index(g, x, y)
        c == g.field_state[index]
    IN  CASE c.kind = "Flagged" ->
                [g EXCEPT !.field_state[index] = Unknown(c.mined),
                          !.remaining = (g.remaining + 1) % 65536,
                          !.state = "Playing"]
          [] c.kind \in {"Known", "Questioned"} ->
                [g EXCEPT !.field_state[index] = Unknown(c.mined),
                          !.state = "Playing"]
          [] c.kind = "Counted" ->
                [g EXCEPT !.field_state[index] = Unknown(FALSE),
                          !.state = "Playing"]
          [] OTHER -> [g EXCEPT !.state = "Playing"]

\* set_unknown writing Unknown(false) in every arm, as its Counted arm does.
set_unknown_drops_mined(g, x, y) ==
    LET index == Index(g, x, y)
        c == g.field_state[index]
    IN  CASE c.kind = "Flagged" ->
                [g EXCEPT !.field_state[index] = Unknown(FALSE),
                          !.remaining = (g.remaining + 1) % 65536]
          [] c.kind \in {"Known", "Questioned", "Counted"} ->
                [g EXCEPT !.field_state[index] = Unknown(FALSE)]
          [] OTHER -> g

set_unknown(g, x, y) ==
    LET index == Index(g, x, y)
        c == g.field_state[index]
    IN  CASE c.kind = "Flagged" ->
                [g EXCEPT !.field_state[index] = Unknown(c.mined),
                          !.remaining = (g.remaining + 1) % 65536]
          [] c.kind \in {"Known", "Questioned"} ->
                [g EXCEPT !.field_state[index] = Unknown(c.mined)]
          [] c.kind = "Counted" ->
                [g EXCEPT !.field_state[index] = Unknown(FALSE)]
          [] OTHER -> g

\* show_mined revealing every mine, the flagged and questioned ones too.
show_mined_marked_too(g) ==
    [g EXCEPT !.field_state =
        [i \in Cells(g) |-> IF g.field_state[i].mined
                            THEN Known(TRUE) ELSE g.field_state[i]]]

show_mined(g) ==
    [g EXCEPT !.field_state =
        [i \in Cells(g) |-> IF g.field_state[i] = Unknown(TRUE)
                            THEN Known(TRUE) ELSE g.field_state[i]]]

(***************************************************************************)
(* fn uncover(&mut self, x, y) -> GameState                                *)
(***************************************************************************)
\* The inner loops pushing every covered safe neighbour, marked or not.
RECURSIVE PushNeighbors_marked_too(_, _, _, _)
PushNeighbors_marked_too(g, x, y, k) ==
    IF k > 8 THEN <<>>
    ELSE LET y_idx == (y - 1) + (k \div 3)
             x_idx == (x - 1) + (k % 3)
             rest == PushNeighbors_marked_too(g, x, y, k + 1)
         IN  IF y_idx < 0 \/ y_idx = g.height THEN rest
             ELSE IF x_idx < 0 \/ x_idx = g.width THEN rest
             ELSE IF (y_idx * g.width) + x_idx = Index(g, x, y) THEN rest
             ELSE IF g.field_state[(y_idx * g.width) + x_idx] \in
                        {Unknown(FALSE), Flagged(FALSE), Questioned(FALSE)}
                  THEN <<(<<x_idx, y_idx>>)>> \o rest
                  ELSE rest

\* The inner loops pushing every safe neighbour that is Unknown(false) or
\* already revealed as Known(false).
RECURSIVE PushNeighbors_revealed_too(_, _, _, _)
PushNeighbors_revealed_too(g, x, y, k) ==
    IF k > 8 THEN <<>>
    ELSE LET y_idx == (y - 1) + (k \div 3)
             x_idx == (x - 1) + (k % 3)
             rest == PushNeighbors_revealed_too(g, x, y, k + 1)
         IN  IF y_idx < 0 \/ y_idx = g.height THEN rest
             ELSE IF x_idx < 0 \/ x_idx = g.width THEN rest
             ELSE IF (y_idx * g.width) + x_idx = Index(g, x, y) THEN rest
             ELSE IF g.field_state[(y_idx * g.width) + x_idx] \in
                        {Unknown(FALSE), Known(FALSE)}
                  THEN <<(<<x_idx, y_idx>>)>> \o rest
                  ELSE rest

\* The inner loops of the flood: the neighbours of (x, y), in the order the
\* loops visit them (rows, then columns), that are Unknown(false).
RECURSIVE PushNeighbors(_, _, _, _)
PushNeighbors(g, x, y, k) ==
    IF k > 8 THEN <<>>
    ELSE LET y_idx == (y - 1) + (k \div 3)
             x_idx == (x - 1) + (k % 3)
             rest == PushNeighbors(g, x, y, k + 1)
         IN  IF y_idx < 0 \/ y_idx = g.height THEN rest
             ELSE IF x_idx < 0 \/ x_idx = g.width THEN rest
             ELSE IF (y_idx * g.width) + x_idx = Index(g, x, y) THEN rest
             ELSE IF g.field_state[(y_idx * g.width) + x_idx] = Unknown(FALSE)
                  THEN <<(<<x_idx, y_idx>>)>> \o rest
                  ELSE rest

\* The loop without the write of its else arm: a popped cell with mines
\* around it stays Unknown(false).
RECURSIVE Flood_skips_counted(_, _, _)
Flood_skips_counted(g, stack, pops) ==
    IF Len(stack) = 0 THEN [game |-> g, pops |-> pops]
    ELSE LET top == stack[Len(stack)]
             x == top[1]
             y == top[2]
             popped == SubSeq(stack, 1, Len(stack) - 1)
             index == Index(g, x, y)
             count == neighbor_count(g, x, y)
         IN  IF count = 0
             THEN LET g1 == [g EXCEPT !.field_state[index] = Known(FALSE)]
                  IN  Flood_skips_counted(g1, popped \o PushNeighbors(g1, x, y, 0),
                                          pops + 1)
             ELSE Flood_skips_counted(g, popped, pops + 1)

\* while stack.len() > 0 { ... }: one iteration pops the last coordinate.
\* The result is the game when the stack is empty and the number of pops.
RECURSIVE Flood(_, _, _)
Flood(g, stack, pops) ==
    IF Len(stack) = 0 THEN [game |-> g, pops |-> pops]
    ELSE LET top == stack[Len(stack)]
             x == top[1]
             y == top[2]
             popped == SubSeq(stack, 1, Len(stack) - 1)
             index == Index(g, x, y)
             count == neighbor_count(g, x, y)
         IN  IF count = 0
             THEN LET g1 == [g EXCEPT !.field_state[index] = Known(FALSE)]
                  IN  Flood(g1, popped \o PushNeighbors(g1, x, y, 0), pops + 1)
             ELSE Flood([g EXCEPT !.field_state[index] = Counted(count)],
                        popped, pops + 1)

\* The mine arm setting the other final phase, Won.
UncoverMine_won(g, index) ==
    [g EXCEPT !.field_state[index] = Known(TRUE), !.state = "Won"]

\* The mine arm without its `self.state = GameState::Lost`.
UncoverMine_not_lost(g, index) ==
    [g EXCEPT !.field_state[index] = Known(TRUE)]

\* The arm of the match for a covered mine: "uncovered a mined cell".
UncoverMine(g, index) ==
    [g EXCEPT !.field_state[index] = Known(TRUE), !.state = "Lost"]

\* The safe arm without the flood: a cell with no mine around it is shown
\* and its neighbours stay covered.
UncoverSafe_no_flood(g, x, y) ==
    LET index == Index(g, x, y)
        count == neighbor_count(g, x, y)
    IN  IF count # 0
        THEN [game |-> [g EXCEPT !.field_state[index] = Counted(count)],
              pops |-> 0]
        ELSE [game |-> [g EXCEPT !.field_state[index] = Known(FALSE)],
              pops |-> 1]

\* The arm of the match for a covered safe cell: the count, or the flood.
\* The result is the game and the number of coordinates the flood popped.
UncoverSafe(g, x, y) ==
    LET index == Index(g, x, y)
        count == neighbor_count(g, x, y)
    IN  IF count # 0
        THEN [game |-> [g EXCEPT !.field_state[index] = Counted(count)],
              pops |-> 0]
        ELSE Flood(g, <<(<<x, y>>)>>, 0)

\* UncoverPlaying with a flag protecting its cell: Flagged(false) falls to
\* the arm that does nothing.
UncoverPlaying_flag_protects(g, x, y) ==
    LET g0 == [g EXCEPT !.state = "Playing"]
        index == Index(g, x, y)
        c == g.field_state[index]
        r == IF c \in {Questioned(FALSE), Unknown(FALSE)}
             THEN UncoverSafe(g0, x, y)
             ELSE IF c \in {Questioned(TRUE), Flagged(TRUE), Unknown(TRUE)}
             THEN [game |-> UncoverMine(g0, index), pops |-> 0]
             ELSE [game |-> g0, pops |-> 0]
    IN  [game |-> r.game, ret |-> r.game.state, pops |-> r.pops]

\* UncoverPlaying with Known(true) in the mine arm: a detonated mine
\* detonates again.
UncoverPlaying_known_detonates(g, x, y) ==
    LET g0 == [g EXCEPT !.state = "Playing"]
        index == Index(g, x, y)
        c == g.field_state[index]
        r == IF c \in {Questioned(FALSE), Flagged(FALSE), Unknown(FALSE)}
             THEN UncoverSafe(g0, x, y)
             ELSE IF c \in {Questioned(TRUE), Flagged(TRUE), Unknown(TRUE),
                            Known(TRUE)}
             THEN [game |-> UncoverMine(g0, index), pops |-> 0]
             ELSE [game |-> g0, pops |-> 0]
    IN  [game |-> r.game, ret |-> r.game.state, pops |-> r.pops]

\* UncoverPlaying matching Flagged(_) and Questioned(_) in its safe arm: a
\* marked cell is counted whatever it hides.
UncoverPlaying_marked_is_safe(g, x, y) ==
    LET g0 == [g EXCEPT !.state = "Playing"]
        index == Index(g, x, y)
        c == g.field_state[index]
        r == IF c.kind \in {"Questioned", "Flagged"} \/ c = Unknown(FALSE)
             THEN UncoverSafe(g0, x, y)
             ELSE IF c = Unknown(TRUE)
             THEN [game |-> UncoverMine(g0, index), pops |-> 0]
             ELSE [game |-> g0, pops |-> 0]
    IN  [game |-> r.game, ret |-> r.game.state, pops |-> r.pops]

\* UncoverPlaying opening an area on the first move only: once the phase
\* has left Initial a safe cell is shown without the flood.
UncoverPlaying_floods_first_only(g, x, y) ==
    LET g0 == [g EXCEPT !.state = "Playing"]
        index == Index(g, x, y)
        c == g.field_state[index]
        r == IF c \in {Questioned(FALSE), Flagged(FALSE), Unknown(FALSE)}
             THEN IF g.state = "Initial" THEN UncoverSafe(g0, x, y)
                  ELSE UncoverSafe_no_flood(g0, x, y)
             ELSE IF c \in {Questioned(TRUE), Flagged(TRUE), Unknown(TRUE)}
             THEN [game |-> UncoverMine(g0, index), pops |-> 0]
             ELSE [game |-> g0, pops |-> 0]
    IN  [game |-> r.game, ret |-> r.game.state, pops |-> r.pops]

\* UncoverPlaying returning the state read before the match.
UncoverPlaying_stale_ret(g, x, y) ==
    LET g0 == [g EXCEPT !.state = "Playing"]
        index == Index(g, x, y)
        c == g.field_state[index]
        r == IF c \in {Questioned(FALSE), Flagged(FALSE), Unknown(FALSE)}
             THEN UncoverSafe(g0, x, y)
             ELSE IF c \in {Questioned(TRUE), Flagged(TRUE), Unknown(TRUE)}
             THEN [game |-> UncoverMine(g0, index), pops |-> 0]
             ELSE [game |-> g0, pops |-> 0]
    IN  [game |-> r.game, ret |-> g0.state, pops |-> r.pops]

\* The call past its first test: self.state = Playing, then the match.
UncoverPlaying(g, x, y) ==
    LET g0 == [g EXCEPT !.state = "Playing"]
        index == Index(g, x, y)
        c == g.field_state[index]
        r == IF c \in {Questioned(FALSE), Flagged(FALSE), Unknown(FALSE)}
             THEN UncoverSafe(g0, x, y)
             ELSE IF c \in {Questioned(TRUE), Flagged(TRUE), Unknown(TRUE)}
             THEN [game |-> UncoverMine(g0, index), pops |-> 0]
             ELSE [game |-> g0, pops |-> 0]
    IN  [game |-> r.game, ret |-> r.game.state, pops |-> r.pops]

\* The whole call without its first test.
uncover_unfrozen(g, x, y) == UncoverPlaying(g, x, y)

\* The whole call: the game after it, the value returned (self.state), and
\* the number of pops.
uncover(g, x, y) ==
    IF g.state = "Lost"
    THEN [game |-> g, ret |-> g.state, pops |-> 0]
    ELSE UncoverPlaying(g, x, y)

(***************************************************************************)
(* The state machine.                                                      *)
(*   last        the last call: its name, arguments, return value and the  *)
(*               number of coordinates its flood loop popped               *)
(*   pre         the Game the last call was applied to (for reset, whose   *)
(*               first step wipes the field, with the field wiped)         *)
(*   lost_before an uncover before the last call has returned Lost on this *)
(*               board since the last reset or clear                       *)
(*   cleared     clear() has been called since the board was generated     *)
(*   cmds        commands issued since the board was generated             *)
(*   work_stack  the work stack of the uncover call in progress, empty     *)
(*               between calls                                             *)
(***************************************************************************)
Game ==
    [width |-> width, height |-> height, state |-> state,
     field_state |-> field_state, total |-> total, remaining |-> remaining]

Call(op, x, y, ret, pops) ==
    [op |-> op, x |-> x, y |-> y, ret |-> ret, pops |-> pops]

\* The variables after a call that leaves the Game g1.
Becomes(g1) ==
    /\ width' = g1.width
    /\ height' = g1.height
    /\ state' = g1.state
    /\ field_state' = g1.field_state
    /\ total' = g1.total
    /\ remaining' = g1.remaining
    /\ work_stack' = <<>>

\* An uncover call, the last one included, has returned Lost on this board.
LostSoFar == lost_before \/ (last.op = "uncover" /\ last.ret = "Lost")

Xs == 0 .. (width - 1)
Ys == 0 .. (height - 1)

Init ==
    \E w \in 1..MaxWidth, h \in 1..MaxHeight :
      \E mines \in Placements([width |-> w, height |-> h]) :
        LET g == new(w, h, mines)
        IN  /\ width = g.width
            /\ height = g.height
            /\ state = g.state
            /\ field_state = g.field_state
            /\ total = g.total
            /\ remaining = g.remaining
            /\ last = Call("new", 0, 0, "Initial", 0)
            /\ pre = g
            /\ lost_before = FALSE
            /\ cleared = FALSE
            /\ cmds = 0
            /\ work_stack = <<>>

Reset ==
    \E mines \in Placements(Game) :
        /\ Becomes(reset(Game, mines))
        /\ last' = Call("reset", 0, 0, "Initial", 0)
        /\ pre' = [Game EXCEPT !.field_state = clear(Game).field_state]
        /\ lost_before' = FALSE
        /\ cleared' = FALSE
        /\ cmds' = 0

Clear ==
    /\ cmds < MaxCmds
    /\ Becomes(clear(Game))
    /\ last' = Call("clear", 0, 0, "Initial", 0)
    /\ pre' = Game
    /\ lost_before' = FALSE
    /\ cleared' = TRUE
    /\ cmds' = cmds + 1

Flag ==
    \E x \in Xs, y \in Ys :
        /\ cmds < MaxCmds
        /\ Becomes(flag(Game, x, y))
        /\ last' = Call("flag", x, y, "Playing", 0)
        /\ pre' = Game
        /\ cmds' = cmds + 1
        /\ lost_before' = LostSoFar
        /\ UNCHANGED cleared

Question ==
    \E x \in Xs, y \in Ys :
        /\ cmds < MaxCmds
        /\ Becomes(question(Game, x, y))
        /\ last' = Call("question", x, y, "Playing", 0)
        /\ pre' = Game
        /\ cmds' = cmds + 1
        /\ lost_before' = LostSoFar
        /\ UNCHANGED cleared

SetUnknown ==
    \E x \in Xs, y \in Ys :
        /\ cmds < MaxCmds
        /\ Becomes(set_unknown(Game, x, y))
        /\ last' = Call("set_unknown", x, y, state, 0)
        /\ pre' = Game
        /\ cmds' = cmds + 1
        /\ lost_before' = LostSoFar
        /\ UNCHANGED cleared

ShowMined ==
    /\ cmds < MaxCmds
    /\ Becomes(show_mined(Game))
    /\ last' = Call("show_mined", 0, 0, state, 0)
    /\ pre' = Game
    /\ cmds' = cmds + 1
    /\ lost_before' = LostSoFar
    /\ UNCHANGED cleared

Uncover ==
    \E x \in Xs, y \in Ys :
        LET r == uncover(Game, x, y)
        IN  /\ cmds < MaxCmds
            /\ Becomes(r.game)
            /\ last' = Call("uncover", x, y, r.ret, r.pops)
            /\ pre' = Game
            /\ lost_before' = LostSoFar
            /\ UNCHANGED cleared
            /\ cmds' = cmds + 1

Next ==
    \/ Reset
    \/ Clear
    \/ Flag
    \/ Question
    \/ SetUnknown
    \/ ShowMined
    \/ Uncover

Spec == Init /\ [][Next]_vars

(***************************************************************************)
(* The board with its query.  is_mined takes &self: the action leaves the  *)
(* Game as it is and records the bool it returns.                          *)
(***************************************************************************)
BoolRet(b) == IF b THEN "true" ELSE "false"

IsMined ==
    \E x \in Xs, y \in Ys :
        /\ cmds < MaxCmds
        /\ Becomes(Game)
        /\ last' = Call("is_mined", x, y, BoolRet(is_mined(Game, x, y)), 0)
        /\ pre' = Game
        /\ cmds' = cmds + 1
        /\ lost_before' = LostSoFar
        /\ UNCHANGED cleared

NextQuery ==
    \/ Flag
    \/ Question
    \/ SetUnknown
    \/ ShowMined
    \/ Uncover
    \/ IsMined

SpecQuery == Init /\ [][NextQuery]_vars

(***************************************************************************)
(* The board of test_uncover_simple: Game::new(5, 5), clear(), then the    *)
(* four cells the test writes as Unknown(true).  The commands on it are    *)
(* uncover calls.                                                          *)
(***************************************************************************)
test_uncover_simple_board(mines) ==
    LET g == clear(new(5, 5, mines))
    IN  [g EXCEPT !.field_state =
            [i \in Cells(g) |->
                IF i \in {0, 4, 5, 18} THEN Unknown(TRUE)
                ELSE g.field_state[i]]]

InitScenario ==
    \E mines \in Placements([width |-> 5, height |-> 5]) :
        LET g == test_uncover_simple_board(mines)
        IN  /\ width = g.width
            /\ height = g.height
            /\ state = g.state
            /\ field_state = g.field_state
            /\ total = g.total
            /\ remaining = g.remaining
            /\ last = Call("clear", 0, 0, "Initial", 0)
            /\ pre = g
            /\ lost_before = FALSE
            /\ cleared = TRUE
            /\ cmds = 0
            /\ work_stack = <<>>

NextScenario == Uncover

SpecScenario == InitScenario /\ [][NextScenario]_vars

(***************************************************************************)
(* Generation on boards of up to MaxSide x MaxSide cells: Game::new, then  *)
(* reset calls.  Every placement the generator can draw is an outcome: the *)
(* `density` cells it stamps are distinct and any cell of the board can be *)
(* drawn.                                                                  *)
(***************************************************************************)
MaxSide == 4

InitDensity ==
    \E w \in 1..MaxSide, h \in 1..MaxSide :
      \E mines \in Placements([width |-> w, height |-> h]) :
        LET g == new(w, h, mines)
        IN  /\ width = g.width
            /\ height = g.height
            /\ state = g.state
            /\ field_state = g.field_state
            /\ total = g.total
            /\ remaining = g.remaining
            /\ last = Call("new", 0, 0, "Initial", 0)
            /\ pre = g
            /\ lost_before = FALSE
            /\ cleared = FALSE
            /\ cmds = 0
            /\ work_stack = <<>>

NextDensity == Reset

SpecDensity == InitDensity /\ [][NextDensity]_vars

(***************************************************************************)
(* Boards laid out as the tests lay them out: Game::new, clear(), then     *)
(* `game.field_state[i] = CellState::Unknown(true)` for the cells of the   *)
(* test's choosing, then commands.  The mines are written before the first *)
(* command; MaxMarks commands follow.                                      *)
(***************************************************************************)
MaxMarks == 2

InitField ==
    \E w \in 1..MaxWidth, h \in 1..MaxHeight :
      \E mines \in Placements([width |-> w, height |-> h]) :
        LET g == clear(new(w, h, mines))
        IN  /\ width = g.width
            /\ height = g.height
            /\ state = g.state
            /\ field_state = g.field_state
            /\ total = g.total
            /\ remaining = g.remaining
            /\ last = Call("clear", 0, 0, "Initial", 0)
            /\ pre = g
            /\ lost_before = FALSE
            /\ cleared = TRUE
            /\ cmds = 0
            /\ work_stack = <<>>

Plant ==
    \E x \in Xs, y \in Ys :
        /\ cmds = 0
        /\ field_state' = [field_state EXCEPT ![Index(Game, x, y)] = Unknown(TRUE)]
        /\ last' = Call("plant", x, y, state, 0)
        /\ pre' = Game
        /\ UNCHANGED <<width, height, state, total, remaining,
                       lost_before, cleared, cmds, work_stack>>

NextField ==
    \/ Plant
    \/ cmds < MaxMarks /\ Flag
    \/ cmds < MaxMarks /\ Question
    \/ cmds < MaxMarks /\ Uncover

SpecField == InitField /\ [][NextField]_vars

(***************************************************************************)
(* Calls with coordinates one step outside the board as well as inside it. *)
(* The methods compute (y * width + x) as usize and index the Vec with it: *)
(* an index outside the Vec (a negative one becomes a huge usize) panics,  *)
(* an index inside it is the cell the call works on.  A panic ends the     *)
(* run: last.ret is "abort", last.pops is 0 and no call follows; what the  *)
(* call wrote before the panic stays written.                              *)
(***************************************************************************)
XsAround == -1 .. width
YsAround == -1 .. height

InVec(g, x, y) == Index(g, x, y) \in Cells(g)

OffBoard(g, x, y) == ~(x \in 0 .. (g.width - 1) /\ y \in 0 .. (g.height - 1))

\* neighbor_count(x, y) panics: one of the cells its loops visit has an
\* index outside the Vec.  With x or y off the board the `continue`s,
\* which test for -1 and for width or height only, let such cells through.
ScanPanics(g, x, y) ==
    \E p \in NeighborVisits(g, x, y) : (p[2] * g.width) + p[1] \notin Cells(g)

\* The flood loop on coordinates that need not be on the board: an
\* iteration panics in neighbor_count or at the write of its cell, and the
\* cells written by the iterations before it stay written.
RECURSIVE FloodAt(_, _, _)
FloodAt(g, stack, pops) ==
    IF Len(stack) = 0 THEN [game |-> g, ret |-> g.state, pops |-> pops]
    ELSE LET top == stack[Len(stack)]
             x == top[1]
             y == top[2]
             popped == SubSeq(stack, 1, Len(stack) - 1)
             index == Index(g, x, y)
         IN  IF ScanPanics(g, x, y) \/ index \notin Cells(g)
             THEN [game |-> g, ret |-> "abort", pops |-> 0]
             ELSE IF neighbor_count(g, x, y) = 0
             THEN LET g1 == [g EXCEPT !.field_state[index] = Known(FALSE)]
                  IN  FloodAt(g1, popped \o PushNeighbors(g1, x, y, 0), pops + 1)
             ELSE FloodAt([g EXCEPT !.field_state[index] =
                                        Counted(neighbor_count(g, x, y))],
                          popped, pops + 1)

\* The safe arm of the match at a coordinate whose index is in the Vec.
UncoverSafeAt(g, x, y) ==
    IF ScanPanics(g, x, y)
    THEN [game |-> g, ret |-> "abort", pops |-> 0]
    ELSE IF neighbor_count(g, x, y) # 0
    THEN [game |-> [g EXCEPT !.field_state[Index(g, x, y)] =
                                Counted(neighbor_count(g, x, y))],
          ret |-> g.state, pops |-> 0]
    ELSE FloodAt(g, <<(<<x, y>>)>>, 0)

\* uncover at any (x, y): it returns before it indexes when the phase is
\* Lost; otherwise it sets the phase to Playing, then indexes the Vec for
\* the match.
uncover_at(g, x, y) ==
    IF g.state = "Lost"
    THEN [game |-> g, ret |-> g.state, pops |-> 0]
    ELSE LET g0 == [g EXCEPT !.state = "Playing"]
             index == Index(g, x, y)
         IN  IF index \notin Cells(g)
             THEN [game |-> g0, ret |-> "abort", pops |-> 0]
             ELSE IF g.field_state[index] \in
                        {Questioned(FALSE), Flagged(FALSE), Unknown(FALSE)}
             THEN UncoverSafeAt(g0, x, y)
             ELSE IF g.field_state[index] \in
                        {Questioned(TRUE), Flagged(TRUE), Unknown(TRUE)}
             THEN [game |-> UncoverMine(g0, index), ret |-> "Lost", pops |-> 0]
             ELSE [game |-> g0, ret |-> g0.state, pops |-> 0]

Running == last.ret # "abort" /\ cmds < MaxMarks

\* What every call at (x, y) leaves behind besides the Game itself.
Called ==
    /\ pre' = Game
    /\ cmds' = cmds + 1
    /\ lost_before' = LostSoFar
    /\ UNCHANGED cleared

IsMinedAt ==
    \E x \in XsAround, y \in YsAround :
        /\ Running
        /\ Becomes(Game)
        /\ last' = Call("is_mined", x, y,
                        IF InVec(Game, x, y) THEN BoolRet(is_mined(Game, x, y))
                        ELSE "abort", 0)
        /\ Called

FlagAt ==
    \E x \in XsAround, y \in YsAround :
        /\ Running
        /\ IF InVec(Game, x, y)
           THEN /\ Becomes(flag(Game, x, y))
                /\ last' = Call("flag", x, y, "Playing", 0)
           ELSE /\ Becomes(Game)
                /\ last' = Call("flag", x, y, "abort", 0)
        /\ Called

QuestionAt ==
    \E x \in XsAround, y \in YsAround :
        /\ Running
        /\ IF InVec(Game, x, y)
           THEN /\ Becomes(question(Game, x, y))
                /\ last' = Call("question", x, y, "Playing", 0)
           ELSE /\ Becomes(Game)
                /\ last' = Call("question", x, y, "abort", 0)
        /\ Called

SetUnknownAt ==
    \E x \in XsAround, y \in YsAround :
        /\ Running
        /\ IF InVec(Game, x, y)
           THEN /\ Becomes(set_unknown(Game, x, y))
                /\ last' = Call("set_unknown", x, y, state, 0)
           ELSE /\ Becomes(Game)
                /\ last' = Call("set_unknown", x, y, "abort", 0)
        /\ Called

UncoverAt ==
    \E x \in XsAround, y \in YsAround :
        LET r == uncover_at(Game, x, y)
        IN  /\ Running
            /\ Becomes(r.game)
            /\ last' = Call("uncover", x, y, r.ret, r.pops)
            /\ Called

NextRange ==
    \/ IsMinedAt
    \/ FlagAt
    \/ QuestionAt
    \/ SetUnknownAt
    \/ UncoverAt

SpecRange == Init /\ [][NextRange]_vars

(***************************************************************************)
(* Generation with degenerate dimensions: boards whose two sides are in    *)
(* 0 .. MaxSide, and boards whose two sides are in MinBig .. MaxDim.       *)
(* reset places `density` mines one by one, drawing a cell again while the *)
(* cell drawn is Unknown(true): with more mines to place than the board    *)
(* has cells the draw never ends once every cell is a mine, and reset      *)
(* never reaches its `self.remaining = density`.  last.ret is then "spins" *)
(* and no call follows.  On every board of the second range the generation *)
(* spins; on a board of the first every placement is an outcome.           *)
(***************************************************************************)
MinBig == 68
MaxDim == 70

Dims == ((0 .. MaxSide) \X (0 .. MaxSide))
            \cup ((MinBig .. MaxDim) \X (MinBig .. MaxDim))

Spins(w, h) == density(w, h) > w * h

\* The Game a generation that never returns is working on.
Spinning(g) ==
    [clear(g) EXCEPT
        !.field_state = [i \in Cells(g) |-> Unknown(TRUE)]]

\* The Games Game::new(w, h) can leave, or be working on for ever.
Generations(w, h) ==
    IF Spins(w, h)
    THEN { Spinning([width |-> w, height |-> h, state |-> "Initial",
                     field_state |-> <<>>, total |-> 0, remaining |-> 0]) }
    ELSE { new(w, h, mines) : mines \in Placements([width |-> w, height |-> h]) }

InitDegenerate ==
    \E d \in Dims :
      \E g \in Generations(d[1], d[2]) :
        /\ width = g.width
        /\ height = g.height
        /\ state = g.state
        /\ field_state = g.field_state
        /\ total = g.total
        /\ remaining = g.remaining
        /\ last = Call("new", 0, 0,
                       IF Spins(d[1], d[2]) THEN "spins" ELSE "Initial", 0)
        /\ pre = g
        /\ lost_before = FALSE
        /\ cleared = FALSE
        /\ cmds = 0
        /\ work_stack = <<>>

ResetDegenerate ==
    /\ last.ret # "spins"
    /\ Reset

NextDegenerate == ResetDegenerate

SpecDegenerate == InitDegenerate /\ [][NextDegenerate]_vars

(***************************************************************************)
(* impl Display for Game.  A string is the sequence of its chars, a char   *)
(* its Unicode scalar value: U+25A0 is 9632, U+25A1 is 9633, '*' is 42,    *)
(* U+1F3F3 is 127987, '?' is 63, ' ' is 32, '\n' is 10, '0' is 48.         *)
(***************************************************************************)
\* The chars the mine glyph is replaced by when covered mines are drawn too.
glyph_draws_mines(c) ==
    CASE c.kind = "Unknown" -> IF c.mined THEN <<42>> ELSE <<9632>>
      [] c = Known(FALSE) -> <<9633>>
      [] c = Known(TRUE) -> <<42>>
      [] c.kind = "Counted" -> <<48 + c.count>>
      [] c.kind = "Flagged" -> <<127987>>
      [] c.kind = "Questioned" -> <<63>>

\* count.to_string() of a u8
RECURSIVE to_string(_)
to_string(n) ==
    IF n < 10 THEN <<48 + n>>
    ELSE to_string(n \div 10) \o <<48 + (n % 10)>>

\* The arms of the match on field_state[idx].
glyph(c) ==
    CASE c.kind = "Unknown" -> <<9632>>
      [] c = Known(FALSE) -> <<9633>>
      [] c = Known(TRUE) -> <<42>>
      [] c.kind = "Counted" -> to_string(c.count)
      [] c.kind = "Flagged" -> <<127987>>
      [] c.kind = "Questioned" -> <<63>>

\* The part of the string from cell (x, y) on: the cell, a space, and a
\* newline after the last cell of a row.
RECURSIVE FmtFrom(_, _, _)
FmtFrom(g, x, y) ==
    IF y >= g.height THEN <<>>
    ELSE IF x >= g.width THEN <<10>> \o FmtFrom(g, 0, y + 1)
    ELSE glyph(g.field_state[Index(g, x, y)]) \o <<32>> \o FmtFrom(g, x + 1, y)

fmt(g) == FmtFrom(g, 0, 0)

\* println!("{}", game): the board is written out and stays as it is.
Display ==
    /\ Becomes(Game)
    /\ last' = Call("fmt", 0, 0, fmt(Game), 0)
    /\ pre' = Game
    /\ lost_before' = LostSoFar
    /\ UNCHANGED <<cleared, cmds>>

NextDisplay ==
    \/ Plant
    \/ cmds < MaxMarks /\ Flag
    \/ cmds < MaxMarks /\ Question
    \/ cmds < MaxMarks /\ Uncover
    \/ Display

SpecDisplay == InitField /\ [][NextDisplay]_vars

(***************************************************************************)
(* uncover with its work-stack loop taken one iteration at a time, on the  *)
(* boards of InitField.  UncoverBegin runs the call up to the loop: a call *)
(* that does not reach the loop is the whole call.  FloodStep is one       *)
(* iteration of `while stack.len() > 0`; last.ret is "running" until the   *)
(* stack is empty and the call returns.  No other call runs while the loop *)
(* does.  The number of pops recorded is capped at 8 * width * height + 1. *)
(***************************************************************************)
ReachesLoop(g, x, y) ==
    IF g.state = "Lost" THEN FALSE
    ELSE /\ g.field_state[Index(g, x, y)] \in
               {Questioned(FALSE), Flagged(FALSE), Unknown(FALSE)}
         /\ neighbor_count(g, x, y) = 0

UncoverBegin ==
    \E x \in Xs, y \in Ys :
        /\ work_stack = <<>>
        /\ cmds < MaxMarks
        /\ IF ReachesLoop(Game, x, y)
           THEN /\ state' = "Playing"
                /\ work_stack' = <<(<<x, y>>)>>
                /\ last' = Call("uncover", x, y, "running", 0)
                /\ UNCHANGED <<width, height, field_state, total, remaining>>
           ELSE LET r == uncover(Game, x, y)
                IN  /\ Becomes(r.game)
                    /\ last' = Call("uncover", x, y, r.ret, r.pops)
        /\ pre' = Game
        /\ cmds' = cmds + 1
        /\ lost_before' = LostSoFar
        /\ UNCHANGED cleared

FloodStep ==
    /\ Len(work_stack) > 0
    /\ last.pops < 8 * width * height + 1
    /\ LET top == work_stack[Len(work_stack)]
           x == top[1]
           y == top[2]
           popped == SubSeq(work_stack, 1, Len(work_stack) - 1)
           index == Index(Game, x, y)
           count == neighbor_count(Game, x, y)
           g1 == [Game EXCEPT !.field_state[index] = Known(FALSE)]
           rest == IF count = 0 THEN popped \o PushNeighbors(g1, x, y, 0)
                   ELSE popped
       IN  /\ field_state' = IF count = 0 THEN g1.field_state
                             ELSE [field_state EXCEPT ![index] = Counted(count)]
           /\ work_stack' = rest
           /\ last' = [last EXCEPT !.pops = @ + 1,
                                   !.ret = IF Len(rest) = 0 THEN state
                                           ELSE "running"]
    /\ UNCHANGED <<width, height, state, total, remaining,
                   pre, lost_before, cleared, cmds>>

NextFlood ==
    \/ Plant
    \/ work_stack = <<>> /\ cmds < MaxMarks /\ Flag
    \/ work_stack = <<>> /\ cmds < MaxMarks /\ Question
    \/ UncoverBegin
    \/ FloodStep

SpecFlood == InitField /\ [][NextFlood]_vars

\* The loop is not interrupted: a call in progress takes its next iteration.
SpecFloodFair == SpecFlood /\ WF_vars(FloodStep)

(***************************************************************************)
(* GameBoard::message_handler on the engine: a click is a message with the *)
(* cell under the mouse.  last.op is the message; for a left click         *)
(* last.ret is "reset" when the handler took its reset branch and          *)
(* otherwise what uncover returned.  lost_before says that, when the last  *)
(* message arrived, a left click had uncovered a mine and no left click    *)
(* had followed it.  cmds counts the clicks.                               *)
(***************************************************************************)
LossPending ==
    \/ last.op = "WM_LBUTTONUP" /\ last.ret = "Lost"
    \/ last.op = "WM_RBUTTONUP" /\ lost_before

\* WM_RBUTTONUP: the match on cell_state(x_cell, y_cell)
RightClick(g, x, y) ==
    LET c == cell_state(g, x, y)
    IN  CASE c.kind = "Unknown" -> flag(g, x, y)
          [] c.kind = "Flagged" -> question(g, x, y)
          [] c.kind = "Questioned" -> set_unknown(g, x, y)
          [] OTHER -> g

RButtonUp ==
    \E x \in Xs, y \in Ys :
        /\ cmds < MaxCmds
        /\ Becomes(RightClick(Game, x, y))
        /\ last' = Call("WM_RBUTTONUP", x, y, "none", 0)
        /\ pre' = Game
        /\ cmds' = cmds + 1
        /\ lost_before' = LossPending
        /\ UNCHANGED cleared

\* WM_LBUTTONUP: reset when state() is Lost; otherwise uncover, then
\* show_mined when it returned Lost and reset when it returned Won.
LButtonUp ==
    \E x \in Xs, y \in Ys :
      \E mines \in Placements(Game) :
        /\ cmds < MaxCmds
        /\ IF state_of(Game) = "Lost"
           THEN /\ Becomes(reset(Game, mines))
                /\ last' = Call("WM_LBUTTONUP", x, y, "reset", 0)
           ELSE LET r == uncover(Game, x, y)
                    g1 == IF r.ret = "Lost" THEN show_mined(r.game) ELSE r.game
                    g2 == IF r.ret = "Won" THEN reset(g1, mines) ELSE g1
                IN  /\ Becomes(g2)
                    /\ last' = Call("WM_LBUTTONUP", x, y, r.ret, r.pops)
        /\ pre' = Game
        /\ cmds' = cmds + 1
        /\ lost_before' = LossPending
        /\ UNCHANGED cleared

NextGui ==
    \/ RButtonUp
    \/ LButtonUp

SpecGui == Init /\ [][NextGui]_vars

TypeOK ==
    /\ width \in 1..MaxWidth
    /\ height \in 1..MaxHeight
    /\ state \in GameState
    /\ field_state \in [Cells(Game) -> CellState]
    /\ total \in 0..65535
    /\ remaining \in 0..65535
    /\ cmds \in 0..MaxCmds
    /\ lost_before \in BOOLEAN
    /\ cleared \in BOOLEAN

(***************************************************************************)
(* Ground truth, stated apart from the code's own counting: the mined flag *)
(* a cell carries, the cells around a cell, the mines among them, and the  *)
(* zero regions of the board.                                              *)
(***************************************************************************)
Mined(c) == c.mined

Covered(c) == c.kind \in {"Unknown", "Flagged", "Questioned"}

Abs(n) == IF n < 0 THEN -n ELSE n

Around(g, i) ==
    { j \in Cells(g) :
        /\ j # i
        /\ Abs(XOf(g, j) - XOf(g, i)) <= 1
        /\ Abs(YOf(g, j) - YOf(g, i)) <= 1 }

TrueCount(g, i) == Cardinality({ j \in Around(g, i) : Mined(g.field_state[j]) })

NumMines(g) == Cardinality({ i \in Cells(g) : Mined(g.field_state[i]) })

ZeroSafe(g, i) == ~Mined(g.field_state[i]) /\ TrueCount(g, i) = 0

\* The maximal 8-connected region of zero-neighbour safe cells that holds S.
RECURSIVE Grow(_, _)
Grow(g, S) ==
    LET S2 == S \cup { j \in Cells(g) :
                         ZeroSafe(g, j) /\ \E i \in S : j \in Around(g, i) }
    IN  IF S2 = S THEN S ELSE Grow(g, S2)

Region(g, i) == Grow(g, {i})

\* The region and the cells bordering it.
Closure(g, i) == Region(g, i) \cup UNION { Around(g, j) : j \in Region(g, i) }

\* The cell the last call addressed, before the call and now.
LastIndex == Index(pre, last.x, last.y)
PreCell == pre.field_state[LastIndex]

MarkOps == {"uncover", "flag", "question", "set_unknown", "show_mined"}

(***************************************************************************)
(* C1  Loss freeze.                                                        *)
(***************************************************************************)
\* C1 (as claimed): once an uncover call has returned Lost on a board, every
\* later uncover call on it (no reset or clear in between) returns Lost and
\* changes no cell.
C1_LossFreeze ==
    (last.op = "uncover" /\ lost_before)
        => (last.ret = "Lost" /\ field_state = pre.field_state)

(***************************************************************************)
(* C2  Flood reveal completeness.                                          *)
(***************************************************************************)
\* What the claim promises of an uncover on cell i of the game g0, read off
\* the game g1 it leaves: the region Known(false), its border Counted with
\* the true counts, every other cell as it was.
FloodRevealed(g0, g1, i) ==
    \A j \in Cells(g0) :
        IF j \in Region(g0, i) THEN g1.field_state[j] = Known(FALSE)
        ELSE IF j \in Closure(g0, i)
             THEN g1.field_state[j] = Counted(TrueCount(g0, j))
             ELSE g1.field_state[j] = g0.field_state[j]

\* The last call was an uncover, on a board that is not lost (a lost board
\* is frozen, which is another property), of a covered safe cell with no
\* mined neighbour.  The board may hold marks and revealed cells.
FloodCase ==
    /\ last.op = "uncover"
    /\ pre.state # "Lost"
    /\ Covered(PreCell)
    /\ ~Mined(PreCell)
    /\ TrueCount(pre, LastIndex) = 0

\* C2 (as claimed): for any mine placement and any marks, uncover on a
\* covered safe cell with no mined neighbour turns its whole zero region into
\* Known(false), the bordering cells into Counted(n) with n their number of
\* mined neighbours, and changes nothing else.
C2_FloodAnyMarks == FloodCase => FloodRevealed(pre, Game, LastIndex)

(***************************************************************************)
(* C3  Neighbour count against ground truth.                               *)
(***************************************************************************)
\* C3 (as claimed): in every reachable state neighbor_count(x, y) is the
\* number of surrounding cells that are mined in ground truth, whatever their
\* wrapper (Unknown, Flagged, Questioned or Known).
C3_NeighborCountIsTruth ==
    \A x \in Xs, y \in Ys :
        neighbor_count(Game, x, y) = TrueCount(Game, Index(Game, x, y))

(***************************************************************************)
(* C4  Mine count after generation.                                        *)
(***************************************************************************)
\* C4: after new and after every reset every cell is Unknown, exactly
\* density(width, height) cells are Unknown(true), remaining = total =
\* that number, and the phase is Initial.
C4_Generated ==
    last.op \in {"new", "reset"} =>
        /\ \A i \in Cells(Game) : field_state[i].kind = "Unknown"
        /\ Cardinality({ i \in Cells(Game) : field_state[i] = Unknown(TRUE) })
             = density(width, height)
        /\ remaining = total
        /\ total = density(width, height)
        /\ state = "Initial"

\* A reset of a lost board whose counter had been moved by a flag.
C4_Witness ==
    /\ last.op = "reset"
    /\ pre.state = "Lost"
    /\ pre.remaining # pre.total
    /\ total > 0
    /\ remaining = total

(***************************************************************************)
(* C5  Mark round trip.                                                    *)
(***************************************************************************)
\* flag, then question, then set_unknown on one cell.
RoundTrip(g, x, y) == set_unknown(question(flag(g, x, y), x, y), x, y)

\* C5 (as claimed): from any reachable state, flag, question, set_unknown on
\* an Unknown(m) cell bring remaining back to its value and the cell back to
\* Unknown(m).
C5_MarkRoundTrip ==
    \A x \in Xs, y \in Ys :
        cell_state(Game, x, y).kind = "Unknown" =>
            /\ RoundTrip(Game, x, y).remaining = remaining
            /\ cell_state(RoundTrip(Game, x, y), x, y) = cell_state(Game, x, y)

(***************************************************************************)
(* C6  Ground truth immutability.                                          *)
(***************************************************************************)
\* C6: uncover, flag, question, set_unknown and show_mined change the mined
\* flag of no cell, and until the next clear the number of mined cells is
\* total.
C6_GroundTruthKept ==
    /\ last.op \in MarkOps =>
          \A i \in Cells(Game) : Mined(field_state[i]) = Mined(pre.field_state[i])
    /\ ~cleared => NumMines(Game) = total

\* set_unknown has covered a detonated mine again.
C6_Witness ==
    /\ last.op = "set_unknown"
    /\ PreCell = Known(TRUE)
    /\ field_state[LastIndex] = Unknown(TRUE)
    /\ ~cleared
    /\ total > 0

(***************************************************************************)
(* C7  Uncovering a mine.                                                  *)
(***************************************************************************)
\* The last call was an uncover of a covered mine on a board not lost.
MineCase ==
    /\ last.op = "uncover"
    /\ pre.state # "Lost"
    /\ PreCell \in {Unknown(TRUE), Flagged(TRUE), Questioned(TRUE)}

\* C7: uncover of a covered mine, phase not Lost, sets that cell to
\* Known(true) and the phase to Lost, returns Lost, and changes no other cell
\* and not remaining.
C7_UncoverMine ==
    MineCase =>
        /\ field_state = [pre.field_state EXCEPT ![LastIndex] = Known(TRUE)]
        /\ state = "Lost"
        /\ last.ret = "Lost"
        /\ remaining = pre.remaining

\* A flagged mine has been uncovered.
C7_Witness ==
    /\ MineCase
    /\ PreCell = Flagged(TRUE)
    /\ field_state[LastIndex] = Known(TRUE)
    /\ state = "Lost"

(***************************************************************************)
(* C8  Frozen when Lost.                                                   *)
(***************************************************************************)
\* C8: an uncover called while the phase is Lost returns Lost and leaves
\* every cell, remaining and the phase as they were.
C8_FrozenWhenLost ==
    (last.op = "uncover" /\ pre.state = "Lost") =>
        /\ last.ret = "Lost"
        /\ field_state = pre.field_state
        /\ remaining = pre.remaining
        /\ total = pre.total
        /\ state = "Lost"

\* An uncover of a covered safe cell on a lost board (a detonated mine
\* shows): the cell stays covered.
C8_Witness ==
    /\ last.op = "uncover"
    /\ pre.state = "Lost"
    /\ PreCell = Unknown(FALSE)
    /\ field_state[LastIndex] = Unknown(FALSE)
    /\ \E j \in Cells(pre) : pre.field_state[j] = Known(TRUE)

(***************************************************************************)
(* C9  flag.                                                               *)
(***************************************************************************)
\* C9: flag turns Unknown(m) and Questioned(m) into Flagged(m) and takes one
\* off remaining unless it is 0; it leaves a Flagged, Known or Counted cell
\* and remaining alone; it always sets the phase to Playing and changes no
\* other cell.
C9_Flag ==
    last.op = "flag" =>
        /\ PreCell.kind \in {"Unknown", "Questioned"} =>
              /\ field_state =
                    [pre.field_state EXCEPT ![LastIndex] = Flagged(PreCell.mined)]
              /\ remaining = IF pre.remaining = 0 THEN 0 ELSE pre.remaining - 1
        /\ PreCell.kind \in {"Flagged", "Known", "Counted"} =>
              /\ field_state = pre.field_state
              /\ remaining = pre.remaining
        /\ state = "Playing"
        /\ total = pre.total

\* A flag on a lost board whose counter was already 0: the cell is flagged,
\* the counter stays 0 and the phase is Playing again.
C9_Witness ==
    /\ last.op = "flag"
    /\ pre.state = "Lost"
    /\ pre.remaining = 0
    /\ PreCell.kind = "Unknown"
    /\ field_state[LastIndex].kind = "Flagged"
    /\ remaining = 0
    /\ state = "Playing"

(***************************************************************************)
(* C10  question.                                                          *)
(***************************************************************************)
\* C10: question turns Unknown(m) into Questioned(m) with remaining kept,
\* Flagged(m) into Questioned(m) with remaining one higher, leaves
\* Questioned, Known and Counted cells and remaining alone; it always sets
\* the phase to Playing and changes no other cell.
C10_Question ==
    last.op = "question" =>
        /\ PreCell.kind = "Unknown" =>
              /\ field_state =
                    [pre.field_state EXCEPT ![LastIndex] = Questioned(PreCell.mined)]
              /\ remaining = pre.remaining
        /\ PreCell.kind = "Flagged" =>
              /\ field_state =
                    [pre.field_state EXCEPT ![LastIndex] = Questioned(PreCell.mined)]
              /\ remaining = pre.remaining + 1
        /\ PreCell.kind \in {"Questioned", "Known", "Counted"} =>
              /\ field_state = pre.field_state
              /\ remaining = pre.remaining
        /\ state = "Playing"
        /\ total = pre.total

\* A question on a flagged mine: the counter has gone up by one.
C10_Witness ==
    /\ last.op = "question"
    /\ PreCell = Flagged(TRUE)
    /\ field_state[LastIndex] = Questioned(TRUE)
    /\ remaining = pre.remaining + 1

(***************************************************************************)
(* C11  set_unknown.                                                       *)
(***************************************************************************)
\* C11: set_unknown turns Flagged(m) into Unknown(m) with remaining one
\* higher, Known(m) and Questioned(m) into Unknown(m) and Counted(n) into
\* Unknown(false) with remaining kept, leaves Unknown(m) alone, and changes
\* no other cell.
C11_SetUnknown ==
    last.op = "set_unknown" =>
        /\ PreCell.kind = "Flagged" =>
              /\ field_state =
                    [pre.field_state EXCEPT ![LastIndex] = Unknown(PreCell.mined)]
              /\ remaining = pre.remaining + 1
        /\ PreCell.kind \in {"Known", "Questioned"} =>
              /\ field_state =
                    [pre.field_state EXCEPT ![LastIndex] = Unknown(PreCell.mined)]
              /\ remaining = pre.remaining
        /\ PreCell.kind = "Counted" =>
              /\ field_state =
                    [pre.field_state EXCEPT ![LastIndex] = Unknown(FALSE)]
              /\ remaining = pre.remaining
        /\ PreCell.kind = "Unknown" =>
              /\ field_state = pre.field_state
              /\ remaining = pre.remaining
        /\ total = pre.total

\* set_unknown has taken the flag off a cell flagged while the counter was
\* at 0: the counter is now above the number of mines.
C11_Witness ==
    /\ last.op = "set_unknown"
    /\ PreCell.kind = "Flagged"
    /\ field_state[LastIndex].kind = "Unknown"
    /\ remaining = pre.remaining + 1
    /\ remaining > total

(***************************************************************************)
(* C12  Uncovering a safe cell with mined neighbours.                      *)
(***************************************************************************)
\* The last call was an uncover, phase not Lost, of a covered safe cell whose
\* neighbour count is not 0.
CountedCase ==
    /\ last.op = "uncover"
    /\ pre.state # "Lost"
    /\ PreCell \in {Unknown(FALSE), Flagged(FALSE), Questioned(FALSE)}
    /\ neighbor_count(pre, last.x, last.y) > 0

\* C12: uncover of a covered safe cell with neighbour count n > 0, phase not
\* Lost, sets exactly that cell to Counted(n), changes no other cell (no
\* cascade) and returns Playing.
C12_UncoverCounted ==
    CountedCase =>
        /\ field_state =
              [pre.field_state EXCEPT
                  ![LastIndex] = Counted(neighbor_count(pre, last.x, last.y))]
        /\ last.ret = "Playing"
        /\ last.pops = 0

\* A flagged safe cell next to the mine has been uncovered, beside covered
\* safe cells that stay covered.
C12_Witness ==
    /\ CountedCase
    /\ PreCell = Flagged(FALSE)
    /\ field_state[LastIndex] = Counted(1)
    /\ \E j \in Around(pre, LastIndex) : field_state[j] = Unknown(FALSE)

(***************************************************************************)
(* C13  Uncovering a revealed cell.                                        *)
(***************************************************************************)
\* C13: uncover of a Known or Counted cell changes no cell and not
\* remaining, and returns the phase the game is in: Lost when it was Lost,
\* Playing otherwise.
C13_UncoverRevealed ==
    (last.op = "uncover" /\ PreCell.kind \in {"Known", "Counted"}) =>
        /\ field_state = pre.field_state
        /\ remaining = pre.remaining
        /\ last.ret = state
        /\ state = IF pre.state = "Lost" THEN "Lost" ELSE "Playing"

\* An uncover of a detonated mine after a flag has lifted Lost: nothing
\* changes and Playing is returned.
C13_Witness ==
    /\ last.op = "uncover"
    /\ PreCell = Known(TRUE)
    /\ pre.state = "Playing"
    /\ lost_before
    /\ last.ret = "Playing"

(***************************************************************************)
(* C14  The value uncover returns.                                         *)
(***************************************************************************)
\* The call detonated a mine: a covered mine on a board not lost.
Detonated ==
    /\ pre.state # "Lost"
    /\ Covered(PreCell)
    /\ Mined(PreCell)

\* C14: the value uncover returns is the phase state() reports after the
\* call: Lost if the call detonated a mine or the phase was Lost already,
\* Playing otherwise.
C14_UncoverReturn ==
    last.op = "uncover" =>
        /\ last.ret = state_of(Game)
        /\ last.ret = IF Detonated \/ pre.state = "Lost"
                      THEN "Lost" ELSE "Playing"

\* An uncover that detonated a questioned mine and returned Lost.
C14_Witness ==
    /\ last.op = "uncover"
    /\ Detonated
    /\ PreCell = Questioned(TRUE)
    /\ last.ret = "Lost"
    /\ state = "Lost"

(***************************************************************************)
(* C15  Phase start.                                                       *)
(***************************************************************************)
\* The last call was one of the five mutating commands, made in phase
\* Initial: an uncover of a safe cell, a flag, a question, or a set_unknown
\* or show_mined that changed a cell.
FirstMutation ==
    /\ last.op \in MarkOps
    /\ pre.state = "Initial"
    /\ last.op = "uncover" => ~Mined(PreCell)
    /\ last.op \in {"set_unknown", "show_mined"} =>
          field_state # pre.field_state

\* C15 (as claimed): the phase is Initial after construction and is Playing
\* as soon as the first mutating command has run, for each of uncover (of a
\* safe cell), flag, question, set_unknown and show_mined.
C15_PhaseStart ==
    /\ last.op = "new" => state = "Initial"
    /\ FirstMutation => state = "Playing"

\* C15 (amended): the phase is Initial after construction and is Playing as
\* soon as the first uncover of a safe cell, flag or question has run;
\* set_unknown and show_mined leave the phase as it was, Initial included.
C15_PhaseStartByUncoverFlagQuestion ==
    /\ last.op = "new" => state = "Initial"
    /\ (FirstMutation /\ last.op \in {"uncover", "flag", "question"}) =>
          state = "Playing"
    /\ last.op \in {"set_unknown", "show_mined"} => state = pre.state

\* In phase Initial show_mined has revealed the mine and set_unknown has
\* covered it again: the phase is still Initial.
C15_Witness ==
    /\ last.op = "set_unknown"
    /\ pre.state = "Initial"
    /\ PreCell = Known(TRUE)
    /\ field_state[LastIndex] = Unknown(TRUE)
    /\ state = "Initial"

(***************************************************************************)
(* C16  Won is never produced.                                             *)
(***************************************************************************)
\* C16: in every state reachable by uncover, flag, question, set_unknown,
\* show_mined, clear and reset the phase is Initial, Playing or Lost, never
\* Won.
C16_NeverWon ==
    /\ state \in {"Initial", "Playing", "Lost"}
    /\ last.ret # "Won"

\* Every safe cell is revealed and every mine is flagged, on a board with a
\* mine: the phase is Playing.
C16_Witness ==
    /\ total > 0
    /\ ~cleared
    /\ \A i \in Cells(Game) :
          IF Mined(field_state[i])
          THEN field_state[i] = Flagged(TRUE)
          ELSE field_state[i].kind \in {"Known", "Counted"}
    /\ state = "Playing"

(***************************************************************************)
(* C18  show_mined.                                                        *)
(***************************************************************************)
\* C18: show_mined turns every Unknown(true) cell into Known(true) and
\* changes nothing else (flagged and questioned mines, safe cells,
\* remaining, total and the phase stay); a second call changes nothing.
C18_ShowMined ==
    last.op = "show_mined" =>
        /\ \A i \in Cells(Game) :
              /\ pre.field_state[i] = Unknown(TRUE) =>
                    field_state[i] = Known(TRUE)
              /\ pre.field_state[i] # Unknown(TRUE) =>
                    field_state[i] = pre.field_state[i]
        /\ remaining = pre.remaining
        /\ total = pre.total
        /\ state = pre.state
        /\ show_mined(Game) = Game

\* show_mined has revealed the mine of a board on which a safe cell is
\* flagged and another one is counted; both are as they were.
C18_Witness ==
    /\ last.op = "show_mined"
    /\ \E i \in Cells(pre) :
          pre.field_state[i] = Unknown(TRUE) /\ field_state[i] = Known(TRUE)
    /\ \E i \in Cells(pre) :
          pre.field_state[i] = Flagged(FALSE) /\ field_state[i] = Flagged(FALSE)
    /\ \E i \in Cells(pre) :
          pre.field_state[i].kind = "Counted" /\ field_state[i] = pre.field_state[i]
(***************************************************************************)
(* C17  is_mined is true exactly for Unknown(true) and Known(true), false  *)
(* for Flagged(true), Questioned(true) and every cell without a mine;      *)
(* flagging a mined cell flips it from true to false and set_unknown flips *)
(* it back; the query changes no state.                                    *)
(***************************************************************************)
ReportsMine(c) == c.kind \in {"Unknown", "Known"} /\ c.mined

C17_IsMined ==
    /\ \A x \in Xs, y \in Ys :
          is_mined(Game, x, y) <=> ReportsMine(field_state[Index(Game, x, y)])
    /\ last.op = "is_mined" =>
          /\ Game = pre
          /\ last.ret = BoolRet(ReportsMine(PreCell))
    /\ (last.op = "flag" /\ PreCell = Unknown(TRUE)) =>
          /\ is_mined(pre, last.x, last.y)
          /\ ~is_mined(Game, last.x, last.y)
    /\ (last.op = "set_unknown" /\ PreCell \in {Flagged(TRUE), Questioned(TRUE)}) =>
          /\ ~is_mined(pre, last.x, last.y)
          /\ is_mined(Game, last.x, last.y)

\* The query has run on a flagged mine and answered false.
C17_Witness ==
    /\ last.op = "is_mined"
    /\ PreCell = Flagged(TRUE)
    /\ last.ret = "false"
    /\ Game = pre
(***************************************************************************)
(* C19  On the 5x5 board with mines exactly at 0, 4, 5 and 18:             *)
(* neighbor_count(2,0) is 0; uncover(2,0) leaves Known(false) at 7,        *)
(* Counted(2) at 1 and 6, Counted(1) at 3, 8, 11, 12 and 13, and leaves 10 *)
(* and 14 Unknown(false); uncover(3,3) after it sets 18 to Known(true) and *)
(* returns Lost.  uncover(3,3) is the second command of the scenario: the  *)
(* first left the cells as listed.                                         *)
(***************************************************************************)
ScenarioBoard(g) ==
    /\ g.width = 5
    /\ g.height = 5
    /\ \A i \in Cells(g) : g.field_state[i] = Unknown(i \in {0, 4, 5, 18})

ScenarioRevealed(f) ==
    /\ f[7] = Known(FALSE)
    /\ f[1] = Counted(2)
    /\ f[6] = Counted(2)
    /\ \A i \in {3, 8, 11, 12, 13} : f[i] = Counted(1)
    /\ f[10] = Unknown(FALSE)
    /\ f[14] = Unknown(FALSE)

C19_Scenario ==
    /\ ScenarioBoard(Game) => neighbor_count(Game, 2, 0) = 0
    /\ (last.op = "uncover" /\ last.x = 2 /\ last.y = 0 /\ ScenarioBoard(pre)) =>
          ScenarioRevealed(field_state)
    /\ (cmds = 2 /\ last.op = "uncover" /\ last.x = 3 /\ last.y = 3
            /\ ScenarioRevealed(pre.field_state)) =>
          /\ field_state[18] = Known(TRUE)
          /\ last.ret = "Lost"

\* uncover(2,0) has revealed the cells of the scenario and uncover(3,3) has
\* then hit the mine at 18.
C19_Witness ==
    /\ cmds = 2
    /\ last.op = "uncover" /\ last.x = 3 /\ last.y = 3
    /\ ScenarioRevealed(pre.field_state)
    /\ pre.field_state[2] = Known(FALSE)
    /\ field_state[18] = Known(TRUE)
    /\ last.ret = "Lost"
(***************************************************************************)
(* C20  The number of mines placed by generation on a board of area A.     *)
(* Polynomial is 10000 times A^2 * 0.0002 + A * 0.0938 + 0.8937.           *)
(***************************************************************************)
Polynomial(A) == 2 * A * A + 938 * A + 8937

Generated == last.op \in {"new", "reset"}

\* C20 as claimed: the number of mines is the polynomial rounded to the
\* nearest integer.
C20_DensityRounded ==
    Generated =>
        LET D == NumMines(Game)
            P == Polynomial(width * height)
        IN  /\ 2 * P >= 10000 * (2 * D - 1)
            /\ 2 * P < 10000 * (2 * D + 1)

\* C20 (amended): the number of mines is the polynomial with its fraction
\* dropped, the largest integer not above it; the number computed for a
\* 10x10 board is 12.
C20_DensityTruncated ==
    Generated =>
        LET D == NumMines(Game)
            P == Polynomial(width * height)
        IN  /\ 10000 * D <= P
            /\ P < 10000 * (D + 1)
            /\ total = D
            /\ density(10, 10) = 12

\* reset has generated a board of 9 cells: the polynomial is 1.7541 and one
\* mine is placed.
C20_Witness ==
    /\ last.op = "reset"
    /\ width * height = 9
    /\ Polynomial(width * height) >= 15000
    /\ NumMines(Game) = 1
(***************************************************************************)
(* C21  neighbor_count(x, y) is the number of cells of the 3x3 block       *)
(* around (x, y), the centre left out and the cells outside the board left *)
(* out, that are Unknown(true), Flagged(true) or Questioned(true); the     *)
(* centre is never counted, a cell at the other end of an adjacent row is  *)
(* never counted, and the result is in 0..8.                               *)
(***************************************************************************)
CoveredMine(c) == Covered(c) /\ Mined(c)

CoveredMinesAround(g, i) ==
    Cardinality({ j \in Around(g, i) : CoveredMine(g.field_state[j]) })

C21_NeighborCount ==
    \A x \in Xs, y \in Ys :
        /\ neighbor_count(Game, x, y) = CoveredMinesAround(Game, Index(Game, x, y))
        /\ neighbor_count(Game, x, y) \in 0..8

\* A 3x3 board whose centre is a mine with mines all around it, one of them
\* flagged and one questioned: the count of the centre is 8, and the count
\* of a corner is 3.
C21_Witness ==
    /\ width = 3 /\ height = 3
    /\ \A i \in Cells(Game) : CoveredMine(field_state[i])
    /\ \E i \in Cells(Game) : field_state[i].kind = "Flagged"
    /\ \E i \in Cells(Game) : field_state[i].kind = "Questioned"
    /\ neighbor_count(Game, 1, 1) = 8
    /\ neighbor_count(Game, 0, 0) = 3
(***************************************************************************)
(* C22  Known(false) cells and the mines around them.                      *)
(***************************************************************************)
\* C22 (as claimed): in every state reached by commands from a generated
\* board, every Known(false) cell has no ground-truth mine among its
\* neighbours.
C22_KnownFalseHasNoMineAround ==
    \A i \in Cells(Game) :
        field_state[i] = Known(FALSE) => TrueCount(Game, i) = 0
(***************************************************************************)
(* C23  Every Counted(n) cell has 1 <= n <= 8 and is no mine: Counted is   *)
(* only ever written by uncover, onto a cell that was Unknown(false),      *)
(* Flagged(false) or Questioned(false).                                    *)
(***************************************************************************)
SafeCovered == {Unknown(FALSE), Flagged(FALSE), Questioned(FALSE)}

C23_CountedCells ==
    \A i \in Cells(Game) :
        field_state[i].kind = "Counted" =>
            /\ field_state[i].count \in 1..8
            /\ ~Mined(field_state[i])
            /\ pre.field_state[i].kind # "Counted" =>
                  /\ last.op = "uncover"
                  /\ pre.field_state[i] \in SafeCovered

\* uncover has written Counted(8) onto a flagged safe cell.
C23_Witness ==
    /\ last.op = "uncover"
    /\ PreCell = Flagged(FALSE)
    /\ field_state[LastIndex] = Counted(8)
(***************************************************************************)
(* C24  clear() sets every one of the width x height cells to              *)
(* Unknown(false) and the phase to Initial and leaves remaining and total  *)
(* as they were: afterwards the board holds no mine while remaining may be *)
(* other than 0.                                                           *)
(***************************************************************************)
C24_Clear ==
    last.op = "clear" =>
        /\ DOMAIN field_state = 0 .. (width * height - 1)
        /\ \A i \in DOMAIN field_state : field_state[i] = Unknown(FALSE)
        /\ NumMines(Game) = 0
        /\ state = "Initial"
        /\ remaining = pre.remaining
        /\ total = pre.total
        /\ width = pre.width
        /\ height = pre.height

\* clear() has wiped a lost board: no mine is left and remaining is 1.
C24_Witness ==
    /\ last.op = "clear"
    /\ pre.state = "Lost"
    /\ \E i \in Cells(pre) : pre.field_state[i] = Known(TRUE)
    /\ NumMines(Game) = 0
    /\ remaining = 1
(***************************************************************************)
(* C25  Calls with coordinates outside the board.                          *)
(***************************************************************************)
\* C25 (as claimed): an operation taking (x, y), called with x outside
\* [0, width) or y outside [0, height), aborts and leaves the board as it
\* was; no other cell is read or changed.  Checked for is_mined, flag,
\* question, set_unknown and uncover.
C25_OffBoardAborts ==
    (last.op \in {"is_mined", "flag", "question", "set_unknown", "uncover"}
        /\ OffBoard(pre, last.x, last.y)) =>
            /\ last.ret = "abort"
            /\ field_state = pre.field_state
            /\ remaining = pre.remaining
(***************************************************************************)
(* C26  Generation with degenerate dimensions.                             *)
(***************************************************************************)
\* C26 (as claimed): new and reset with width or height <= 0, or with a
\* computed number of mines that is at least the number of cells, fail with
\* InvalidDimensions and do not loop in the placement.
C26_DegenerateGuarded ==
    (last.op \in {"new", "reset"}
        /\ (width <= 0 \/ height <= 0
              \/ density(width, height) >= width * height)) =>
            last.ret = "InvalidDimensions"
(***************************************************************************)
(* C27  uncover, flag, question, set_unknown and show_mined complete with  *)
(* a defined outcome on every valid (x, y) and every cell state: the Game  *)
(* they leave is well formed, uncover returns a phase, and the u16 counter *)
(* neither underflows nor overflows (remaining moves by at most one a call *)
(* and remaining plus the number of flags never exceeds the larger of      *)
(* total and the number of cells).                                         *)
(***************************************************************************)
NumFlagged(g) == Cardinality({ i \in Cells(g) : g.field_state[i].kind = "Flagged" })

Larger(a, b) == IF a > b THEN a ELSE b

C27_Total ==
    last.op \in MarkOps =>
        /\ state \in GameState
        /\ last.ret \in GameState
        /\ field_state \in [Cells(pre) -> CellState]
        /\ width = pre.width /\ height = pre.height /\ total = pre.total
        /\ remaining - pre.remaining \in {-1, 0, 1}
        /\ remaining + NumFlagged(Game) <= Larger(total, width * height)

\* flag has run on a Counted cell and left the field as it was.
C27_Witness ==
    /\ last.op = "flag"
    /\ PreCell.kind = "Counted"
    /\ field_state = pre.field_state
    /\ state = "Playing"
(***************************************************************************)
(* C28  The text of a board does not show the ground truth of its covered  *)
(* cells: boards of equal dimensions that differ only in the mined flag of *)
(* Unknown, Flagged or Questioned cells have the same text.  A covered, a  *)
(* flagged and a questioned cell each have one fixed glyph; Known(false),  *)
(* Known(true) and Counted(n) have the revealed glyph, the mine glyph and  *)
(* the digit n.                                                            *)
(***************************************************************************)
\* The board with the mined flag of every covered cell taken away: two
\* boards differ only in those flags exactly when their Masked boards are
\* equal.
Masked(g) ==
    [g EXCEPT !.field_state =
        [i \in Cells(g) |->
            IF Covered(g.field_state[i])
            THEN [g.field_state[i] EXCEPT !.mined = FALSE]
            ELSE g.field_state[i]]]

\* What the claim lets a cell show.
Shown(c) ==
    CASE c.kind = "Unknown" -> 9632
      [] c.kind = "Flagged" -> 127987
      [] c.kind = "Questioned" -> 63
      [] c.kind = "Known" -> IF c.mined THEN 42 ELSE 9633
      [] c.kind = "Counted" -> 48 + c.count

C28_TextHidesMines ==
    last.op = "fmt" =>
        /\ Game = pre
        /\ last.ret = fmt(Masked(pre))
        /\ Len(last.ret) = height * (2 * width + 1)
        /\ \A y \in Ys :
              /\ last.ret[(y + 1) * (2 * width + 1)] = 10
              /\ \A x \in Xs :
                    /\ last.ret[y * (2 * width + 1) + 2 * x + 1]
                          = Shown(field_state[Index(Game, x, y)])
                    /\ last.ret[y * (2 * width + 1) + 2 * x + 2] = 32

\* The text of a board that holds a covered, a flagged and a questioned
\* mine and a covered safe cell has been written.
C28_Witness ==
    /\ last.op = "fmt"
    /\ \E i \in Cells(Game) : field_state[i] = Unknown(TRUE)
    /\ \E i \in Cells(Game) : field_state[i] = Flagged(TRUE)
    /\ \E i \in Cells(Game) : field_state[i] = Questioned(TRUE)
    /\ \E i \in Cells(Game) : field_state[i] = Unknown(FALSE)
    /\ last.ret = fmt(Masked(Game))
(***************************************************************************)
(* C29  The mine counter against the flags on the board.                   *)
(***************************************************************************)
\* C29 (as claimed): in every state reached from a generated board by
\* uncover, flag, question, set_unknown and show_mined calls, remaining is
\* max(0, total - number of cells currently Flagged).
C29_RemainingIsTotalLessFlags ==
    (~cleared) =>
        remaining = Larger(0, total - NumFlagged(Game))
(***************************************************************************)
(* C30  An uncover call on a safe cell changes no mined cell and no        *)
(* Flagged or Questioned cell other than its target; every other cell it   *)
(* rewrites was exactly Unknown(false): marked safe cells inside a zero    *)
(* region stay marked.                                                     *)
(***************************************************************************)
SafeUncover ==
    /\ last.op = "uncover"
    /\ PreCell \in {Unknown(FALSE), Flagged(FALSE), Questioned(FALSE)}

C30_FloodFrame ==
    SafeUncover =>
        \A i \in Cells(pre) :
            /\ Mined(pre.field_state[i]) => field_state[i] = pre.field_state[i]
            /\ (i # LastIndex /\ pre.field_state[i].kind \in {"Flagged", "Questioned"})
                  => field_state[i] = pre.field_state[i]
            /\ (i # LastIndex /\ field_state[i] # pre.field_state[i])
                  => pre.field_state[i] = Unknown(FALSE)

\* The flood has run from a zero cell with a flagged safe cell and a
\* questioned safe cell beside it: both keep their marks while other
\* neighbours are revealed.
C30_Witness ==
    /\ SafeUncover
    /\ last.pops > 1
    /\ \E i \in Around(pre, LastIndex) :
          pre.field_state[i] = Flagged(FALSE) /\ field_state[i] = Flagged(FALSE)
    /\ \E i \in Around(pre, LastIndex) :
          pre.field_state[i] = Questioned(FALSE) /\ field_state[i] = Questioned(FALSE)
    /\ \E i \in Around(pre, LastIndex) :
          pre.field_state[i] = Unknown(FALSE) /\ field_state[i] # Unknown(FALSE)
(***************************************************************************)
(* C31  The work-stack loop of uncover terminates: whenever the stack is   *)
(* not empty it eventually becomes empty, on every board, marking and      *)
(* start cell, although a coordinate can be pushed more than once.         *)
(***************************************************************************)
C31_FloodTerminates == (Len(work_stack) > 0) ~> (Len(work_stack) = 0)

\* The stack has held the same coordinate twice at once.
C31_Witness ==
    /\ last.op = "uncover"
    /\ \E i, j \in 1 .. Len(work_stack) : i # j /\ work_stack[i] = work_stack[j]
(***************************************************************************)
(* C32  The number of coordinates one uncover call pops.                   *)
(***************************************************************************)
\* C32 (as claimed): the number of coordinates popped from the work stack
\* during one uncover call never exceeds width x height.
C32_PopsAtMostCells ==
    last.op = "uncover" => last.pops <= width * height

\* The cells the last call revealed as Known(false), and the neighbours that
\* were Unknown(false) before the call which they have between them, a
\* neighbour counted once for each.
NewlyZero == { i \in Cells(pre) :
                 field_state[i] = Known(FALSE) /\ pre.field_state[i] # Known(FALSE) }

ZeroNeighbourPairs ==
    { p \in NewlyZero \X Cells(pre) :
        p[2] \in Around(pre, p[1]) /\ pre.field_state[p[2]] = Unknown(FALSE) }

\* C32 (amended): one uncover call processes at most width x height
\* different cells, but it can pop a coordinate more than once: the number
\* of pops is at most 1 plus the number of Unknown(false) neighbours of the
\* cells the call reveals as Known(false), which is at most
\* 1 + 8 x width x height.
C32_PopsAtMostPushes ==
    last.op = "uncover" =>
        /\ Cardinality({ i \in Cells(pre) : field_state[i] # pre.field_state[i] })
              <= width * height
        /\ last.pops <= 1 + Cardinality(ZeroNeighbourPairs)
        /\ last.pops <= 1 + 8 * width * height
        /\ last.pops > 0 => NewlyZero # {}

\* One call has popped more coordinates than the board has cells.
C32_Witness ==
    /\ last.op = "uncover"
    /\ last.pops > width * height
    /\ last.pops <= 1 + Cardinality(ZeroNeighbourPairs)
(***************************************************************************)
(* C33  In a state whose phase is not Lost, for two cells a and b without  *)
(* a mine, uncover(a) then uncover(b) leaves the same cells, remaining and *)
(* phase as uncover(b) then uncover(a); and uncover(a) twice leaves what   *)
(* uncover(a) once leaves.  The two calls are the next two commands, so    *)
(* the states looked at are those with two commands to go.                 *)
(***************************************************************************)
Then(g, i) == uncover(g, XOf(g, i), YOf(g, i)).game

SafeCells == { i \in Cells(Game) : ~Mined(field_state[i]) }

C33_UncoverOrder ==
    (state # "Lost" /\ cmds + 2 <= MaxCmds) =>
        \A a \in SafeCells :
            /\ Then(Then(Game, a), a) = Then(Game, a)
            /\ \A b \in SafeCells :
                  a < b => Then(Then(Game, a), b) = Then(Then(Game, b), a)

\* A board with a flagged cell and two covered cells without a mine, each
\* of which the other's uncover leaves covered: both orders give one board.
C33_Witness ==
    /\ state # "Lost" /\ cmds + 2 <= MaxCmds
    /\ \E i \in Cells(Game) : field_state[i].kind = "Flagged"
    /\ \E a, b \in SafeCells :
          /\ a # b
          /\ Covered(Then(Game, a).field_state[b])
          /\ Covered(Then(Game, b).field_state[a])
          /\ Then(Then(Game, a), b) = Then(Then(Game, b), a)
(***************************************************************************)
(* C34  The left click after a loss.                                       *)
(***************************************************************************)
\* C34 (as claimed): once a left click has uncovered a mine, the next left
\* click resets the game (a fresh board in phase Initial) and uncovers no
\* cell of the lost board, whatever right clicks come in between.
C34_LeftClickAfterLossResets ==
    (last.op = "WM_LBUTTONUP" /\ lost_before) =>
        /\ last.ret = "reset"
        /\ state = "Initial"
        /\ \A i \in Cells(Game) : field_state[i].kind = "Unknown"
        /\ remaining = total

====
